---- MODULE Spec2Model ----
(***************************************************************************)
(* The Paragraph block tool (Editor.js plugin): one block instance, the    *)
(* DIV it renders, the browser's animation-frame queue and the host and    *)
(* user events that reach the instance.                                    *)
(*                                                                         *)
(* A JavaScript string is a sequence of tokens.  The value `undefined` of  *)
(* a text field is the reserved one-token sequence Undefined; `undefined`  *)
(* of an alignment or a config field is the string UNDEF.                  *)
(***************************************************************************)
EXTENDS Naturals, Sequences, FiniteSets

VARIABLES
    config,           \* this.config: defaultAlignment, optional preserveBlank
    readOnly,         \* this.readOnly
    _data,            \* this._data: [text, alignment]
    _element,         \* this._element: NULL or the id of the DIV
    _preserveBlank,   \* this._preserveBlank
    childNodes,       \* DOM content of the DIV
    classList,        \* alignment-related CSS classes on the DIV
    contentEditable,  \* div.contentEditable
    rafQueue,         \* number of hydrate callbacks posted and not yet run
    settings,         \* renderSettings() has built the tune buttons
    drawn,            \* number of drawView() calls so far
    lastOp,           \* the operation that produced this state
    arg,              \* its input, for the operations that take one
    ret,              \* its return value, for the operations that return one
    initData,         \* the constructor's data, while nothing has changed the block
    written           \* the text last handed to hydration, while the user has not edited

vars == <<config, readOnly, _data, _element, _preserveBlank, childNodes,
          classList, contentEditable, rafQueue, settings, drawn, lastOp, arg,
          ret, initData, written>>

(* ------------------------------ bounds -------------------------------- *)
MaxInputLen == 1    \* longest text an input carries
MaxTextLen == 2     \* longest text merge may build
MaxPending == 1     \* most hydrate callbacks waiting at once

(* ----------------------------- JS values ------------------------------ *)
UNDEF == "undefined"
Undefined == <<"#undefined">>
NULL == 0
NoRet == [text |-> <<>>, alignment |-> "", ok |-> FALSE, element |-> NULL]
NoArg == [text |-> <<>>, alignment |-> ""]
\* value of a history variable that no longer applies
Gone == [text |-> <<"#gone">>, alignment |-> ""]

ALIGNMENTS == {"left", "center", "right", "justify"}
DEFAULT_ALIGNMENT == "left"

\* a || b on alignment strings: '' and undefined are falsy
Or(a, b) == IF a = UNDEF \/ a = "" THEN b ELSE a
\* text || '' : '' and undefined are falsy
TextOr(t) == IF t = Undefined THEN <<>> ELSE t
\* ToString applied by the + operator
ToStr(t) == IF t = Undefined THEN <<"undefined">> ELSE t

\* this._CSS.alignment[name]; a missing key yields undefined, which
\* classList.add stringifies
CSSAlignment(name) ==
    IF name \in ALIGNMENTS
    THEN CASE name = "left" -> "ce-paragraph--left"
           [] name = "center" -> "ce-paragraph--center"
           [] name = "right" -> "ce-paragraph--right"
           [] name = "justify" -> "ce-paragraph--justify"
    ELSE "undefined"

(* ------------------------------- DOM ---------------------------------- *)
\* element.innerHTML = s : the HTML parser decodes the entity and accepts a
\* bare ampersand as the character
ParseHTML(s) == [i \in 1..Len(s) |-> IF s[i] = "&amp;" THEN "&" ELSE s[i]]
\* element.innerHTML read: the serializer escapes the ampersand character
SerializeHTML(n) == [i \in 1..Len(n) |-> IF n[i] = "&" THEN "&amp;" ELSE n[i]]

(* ------------------------------ inputs -------------------------------- *)
RECURSIVE SeqsUpTo(_, _)
SeqsUpTo(S, n) ==
    IF n = 0 THEN {<<>>}
    ELSE LET shorter == SeqsUpTo(S, n - 1)
         IN shorter \cup {Append(s, c) : s \in shorter, c \in S}

\* text as the serializer writes it (what save() and pasted markup carry)
SavedTexts == SeqsUpTo({"&amp;"}, MaxInputLen)
\* text a host may hand to the constructor: saved, hand-written, or absent
DataTexts == SeqsUpTo({"a"}, MaxInputLen) \cup {<<"&">>, Undefined}
\* DOM content the user can produce by typing
TypedNodes == SeqsUpTo({"a"}, MaxInputLen)
\* text the host hands to validate: empty, whitespace only, padded, plain
ValidateTexts == {<<>>, <<" ", " ">>, <<" ", "a", " ">>, <<"a">>}

\* tool configs: with and without defaultAlignment, with and without
\* preserveBlank
Configs ==
    [defaultAlignment : {UNDEF, "center"}]
    \cup [defaultAlignment : {UNDEF}, preserveBlank : BOOLEAN]

\* alignments of the data the host hands to the constructor and to merge
DataAligns == {UNDEF, "right"}
OtherAligns == {"left", "justify"}

(* ------------------------- data getter / setter ----------------------- *)
\* get data(): syncs _data.text from the live DIV when there is one
DataGet(d, el, nodes) ==
    IF el # NULL THEN [d EXCEPT !.text = SerializeHTML(nodes)] ELSE d

\* the data this.data would return in the current state
Data == DataGet(_data, _element, childNodes)

\* hydrate(): posts one animation-frame callback
Hydrate(q) == q + 1

\* set data(data): stores the object handed in (always an object here, so
\* `data || {}` is data) and re-hydrates a rendered DIV
DataSet(data) == data
DataSetQueue(el, q) == IF el # NULL THEN Hydrate(q) ELSE q

(* ---------------------------- constructor ----------------------------- *)
\* the object the constructor leaves in this._data: the fallback record of
\* lines 100-103 is replaced by `this.data = data` on line 126, whose setter
\* stores the host's object as it is
Constructor(data, cfg) ==
    LET fallback == [text |-> TextOr(data.text),
                     alignment |-> Or(data.alignment,
                                      Or(cfg.defaultAlignment, DEFAULT_ALIGNMENT))]
        afterSetter == DataSet(data)
    IN  afterSetter

PreserveBlank(cfg) ==
    IF "preserveBlank" \in DOMAIN cfg THEN cfg.preserveBlank ELSE FALSE

Init ==
    \E data \in [text : DataTexts, alignment : DataAligns],
       cfg \in Configs, ro \in BOOLEAN :
        /\ config = cfg
        /\ readOnly = ro
        /\ _data = Constructor(data, cfg)
        /\ _element = NULL
        /\ _preserveBlank = PreserveBlank(cfg)
        /\ childNodes = <<>>
        /\ classList = {}
        /\ contentEditable = FALSE
        /\ rafQueue = 0
        /\ settings = FALSE
        /\ drawn = 0
        /\ lastOp = "constructor"
        /\ arg = data
        /\ ret = NoRet
        /\ initData = data
        /\ written = data.text

(* ------------------------------ render -------------------------------- *)
\* drawView(): the classes and editability of a fresh DIV
DrawViewClasses(d) == {CSSAlignment(d.alignment)}
DrawViewEditable(ro) == ~ro

\* render() draws the view only while this._element is null
NeedsDrawAlways(el) == TRUE
NeedsDraw(el) == el = NULL

Render ==
    /\ rafQueue < MaxPending
    /\ IF NeedsDraw(_element)
       THEN /\ _element' = drawn + 1
            /\ drawn' = drawn + 1
            /\ classList' = DrawViewClasses(_data)
            /\ contentEditable' = DrawViewEditable(readOnly)
            /\ childNodes' = <<>>
       ELSE UNCHANGED <<_element, drawn, classList, contentEditable, childNodes>>
    /\ rafQueue' = Hydrate(rafQueue)
    /\ lastOp' = "render"
    /\ arg' = NoArg
    /\ ret' = [NoRet EXCEPT !.element = _element']
    /\ UNCHANGED <<config, readOnly, _data, _preserveBlank, settings,
                   initData, written>>

\* the animation-frame callback of hydrate()
Frame ==
    /\ rafQueue > 0
    /\ rafQueue' = rafQueue - 1
    /\ childNodes' = ParseHTML(TextOr(_data.text))
    /\ lastOp' = "frame"
    /\ arg' = NoArg
    /\ ret' = NoRet
    /\ UNCHANGED <<config, readOnly, _data, _element, _preserveBlank, classList,
                   contentEditable, settings, drawn, initData, written>>

(* ------------------------------- merge -------------------------------- *)
\* the object merge() builds: both reads go through the data getter
MergeDataReversed(cur, other) ==
    [text |-> ToStr(other.text) \o ToStr(cur.text), alignment |-> cur.alignment]
MergeData(cur, other) ==
    [text |-> ToStr(cur.text) \o ToStr(other.text), alignment |-> cur.alignment]

Merge ==
    \E other \in [text : SavedTexts, alignment : OtherAligns] :
        LET cur == Data
            newData == MergeData(cur, other)
        IN  /\ Len(newData.text) <= MaxTextLen
            /\ rafQueue < MaxPending
            /\ _data' = DataSet(newData)
            /\ rafQueue' = DataSetQueue(_element, rafQueue)
            /\ lastOp' = "merge"
            /\ arg' = other
            /\ ret' = NoRet
            /\ written' = newData.text
            /\ initData' = Gone
            /\ UNCHANGED <<config, readOnly, _element, _preserveBlank, childNodes,
                           classList, contentEditable, settings, drawn>>

(* ------------------------------ validate ------------------------------ *)
\* String.prototype.trim on the token sequence
RECURSIVE TrimStart(_)
TrimStart(s) ==
    IF s # <<>> /\ Head(s) = " " THEN TrimStart(Tail(s)) ELSE s
RECURSIVE TrimEnd(_)
TrimEnd(s) ==
    IF s # <<>> /\ s[Len(s)] = " " THEN TrimEnd(SubSeq(s, 1, Len(s) - 1)) ELSE s
Trim(s) == TrimEnd(TrimStart(s))

ValidateResultNoTrim(savedData, preserve) ==
    IF savedData.text = <<>> /\ ~preserve THEN FALSE ELSE TRUE
ValidateResult(savedData, preserve) ==
    IF Trim(savedData.text) = <<>> /\ ~preserve THEN FALSE ELSE TRUE

Validate ==
    \E savedData \in [text : ValidateTexts, alignment : {DEFAULT_ALIGNMENT}] :
        /\ lastOp' = "validate"
        /\ arg' = savedData
        /\ ret' = [NoRet EXCEPT !.ok = ValidateResult(savedData, _preserveBlank)]
        /\ UNCHANGED <<config, readOnly, _data, _element, _preserveBlank,
                       childNodes, classList, contentEditable, rafQueue, settings,
                       drawn, initData, written>>

(* ------------------------------- save --------------------------------- *)
\* save(toolsContent) with the DIV render() returned
SaveResult(d, nodes) ==
    [NoRet EXCEPT !.text = SerializeHTML(nodes), !.alignment = d.alignment]

Save ==
    /\ _element # NULL
    /\ _data' = Data
    /\ lastOp' = "save"
    /\ arg' = NoArg
    /\ ret' = SaveResult(Data, childNodes)
    /\ UNCHANGED <<config, readOnly, _element, _preserveBlank, childNodes,
                   classList, contentEditable, rafQueue, settings, drawn,
                   initData, written>>

(* ------------------------------ onPaste ------------------------------- *)
\* the object onPaste() builds from event.detail.data
PasteDataNoConfig(pasted, cfg) ==
    [text |-> pasted.text, alignment |-> Or(pasted.alignment, DEFAULT_ALIGNMENT)]
PasteData(pasted, cfg) ==
    [text |-> pasted.text,
     alignment |-> Or(pasted.alignment, Or(cfg.defaultAlignment, DEFAULT_ALIGNMENT))]

\* style.textAlign of the pasted element: '' when it has no inline alignment
TextAligns == {"", "right"}

OnPaste ==
    \E pasted \in [text : SavedTexts, alignment : TextAligns] :
        /\ rafQueue < MaxPending
        /\ _data' = DataSet(PasteData(pasted, config))
        /\ rafQueue' = DataSetQueue(_element, rafQueue)
        /\ lastOp' = "onPaste"
        /\ arg' = pasted
        /\ ret' = NoRet
        /\ written' = pasted.text
        /\ initData' = Gone
        /\ UNCHANGED <<config, readOnly, _element, _preserveBlank, childNodes,
                       classList, contentEditable, settings, drawn>>

(* --------------------------- renderSettings --------------------------- *)
\* builds the tune buttons; reading this.data.alignment syncs the text
RenderSettings ==
    /\ _data' = Data
    /\ settings' = TRUE
    /\ lastOp' = "renderSettings"
    /\ arg' = NoArg
    /\ ret' = NoRet
    /\ UNCHANGED <<config, readOnly, _element, _preserveBlank, childNodes,
                   classList, contentEditable, rafQueue, drawn, initData, written>>

(* ---------------------------- tune click ------------------------------ *)
\* _toggleTune(tune): the alignment it stores
ToggleTuneNoReset(cur, tune, cfg) == tune
ToggleTune(cur, tune, cfg) ==
    IF cur.alignment = tune THEN cfg.defaultAlignment ELSE tune

\* element.classList.toggle(cls, force) for each of the four tunes
ToggleClasses(classes, alignment) ==
    (classes \ {CSSAlignment(name) : name \in ALIGNMENTS})
    \cup {CSSAlignment(name) : name \in {n \in ALIGNMENTS : n = alignment}}

\* the click listener of the button for `tune`; without a DIV the
\* this._element.classList access throws after _toggleTune has run
Click ==
    \E tune \in ALIGNMENTS :
        LET cur == Data
            alignment == ToggleTune(cur, tune, config)
        IN  /\ settings
            /\ _data' = [cur EXCEPT !.alignment = alignment]
            /\ classList' = IF _element # NULL
                            THEN ToggleClasses(classList, alignment)
                            ELSE classList
            /\ lastOp' = "click"
            /\ arg' = [NoArg EXCEPT !.alignment = tune]
            /\ ret' = NoRet
            /\ initData' = Gone
            /\ UNCHANGED <<config, readOnly, _element, _preserveBlank, childNodes,
                           contentEditable, rafQueue, settings, drawn, written>>

(* ----------------------------- user input ----------------------------- *)
\* the user types into the editable DIV
Edit ==
    \E nodes \in TypedNodes :
        /\ _element # NULL
        /\ contentEditable
        /\ nodes # childNodes
        /\ childNodes' = nodes
        /\ lastOp' = "edit"
        /\ arg' = NoArg
        /\ ret' = NoRet
        /\ initData' = Gone
        /\ written' = Gone.text
        /\ UNCHANGED <<config, readOnly, _data, _element, _preserveBlank,
                       classList, contentEditable, rafQueue, settings, drawn>>

Next ==
    \/ Render
    \/ Frame
    \/ Merge
    \/ Validate
    \/ Save
    \/ OnPaste
    \/ RenderSettings
    \/ Click
    \/ Edit

Spec == Init /\ [][Next]_vars

(* ------------------------------ claims -------------------------------- *)
\* the three-level fallback: explicit value, configured default, left
Fallback(alignment, cfg) ==
    IF alignment # UNDEF /\ alignment # "" THEN alignment
    ELSE IF cfg.defaultAlignment # UNDEF THEN cfg.defaultAlignment
    ELSE "left"

AlignmentClasses ==
    {"ce-paragraph--left", "ce-paragraph--center", "ce-paragraph--right",
     "ce-paragraph--justify"}

\* text that an innerHTML write followed by a read gives back unchanged
IsSerialized(t) == t # Undefined /\ SerializeHTML(ParseHTML(t)) = t

\* C1: in every reachable state the block's data alignment is one of left,
\* center, right, justify.
AlignmentEnumerated == _data.alignment \in ALIGNMENTS

\* C2: a save() at any point after render(), with nothing but the
\* constructor, render and frames having touched the block, returns the text
\* and the alignment of the saved data the block was constructed with.
RoundTrip ==
    (/\ lastOp = "save"
     /\ initData # Gone
     /\ IsSerialized(initData.text)
     /\ initData.alignment \in ALIGNMENTS)
    => (ret.text = initData.text /\ ret.alignment = initData.alignment)

\* C3: merge(other) on a block whose data getter returns {text: A,
\* alignment: c} stores {text: A followed by other.text, alignment: c},
\* whatever alignment other carries.
MergeConcatenates ==
    [][(lastOp' = "merge" /\ Data.text # Undefined)
       => _data' = [text |-> Data.text \o arg'.text,
                    alignment |-> Data.alignment]]_vars

MergeWitness ==
    /\ lastOp = "merge"
    /\ _element # NULL
    /\ Len(arg.text) = 1
    /\ Len(_data.text) = 2
    /\ _data.text[1] # _data.text[2]
    /\ _data.alignment # arg.alignment

\* C4: as onPaste returns, the stored data is exactly the pasted element's
\* inner content with its inline text-align, else the configured default,
\* else left.
PasteReplaces ==
    lastOp = "onPaste"
    => _data = [text |-> arg.text, alignment |-> Fallback(arg.alignment, config)]

PasteWitness ==
    /\ lastOp = "onPaste"
    /\ _element # NULL
    /\ arg.alignment = ""
    /\ config.defaultAlignment = "center"
    /\ arg.text # <<>>
    /\ SerializeHTML(childNodes) # arg.text

\* C5: a click on the tune button for a stores a when the current alignment
\* differs from a and config.defaultAlignment when it equals a; the text the
\* block holds and the DIV's content stay as they were.
ToggleSemantics ==
    [][lastOp' = "click"
       => /\ _data'.alignment = IF Data.alignment = arg'.alignment
                                THEN config.defaultAlignment
                                ELSE arg'.alignment
          /\ Data'.text = Data.text
          /\ childNodes' = childNodes]_vars

ToggleWitness ==
    /\ lastOp = "click"
    /\ _element # NULL
    /\ config.defaultAlignment = "center"
    /\ _data.alignment = "center"
    /\ arg.alignment = "right"

\* C6: right after construction the data is {saved text or "", saved
\* alignment else configured default else left} and there is no element.
ConstructionFallback ==
    lastOp = "constructor"
    => /\ _data = [text |-> TextOr(arg.text),
                   alignment |-> Fallback(arg.alignment, config)]
       /\ _element = NULL

\* C7: validate returns false exactly when the text is all whitespace and
\* preserveBlank is false or unset, and changes nothing of the block.
IsBlank(t) == \A i \in 1..Len(t) : t[i] = " "
PreserveConfigured == "preserveBlank" \in DOMAIN config /\ config.preserveBlank

ValidateGate ==
    [][lastOp' = "validate"
       => /\ ret'.ok = ~(IsBlank(arg'.text) /\ ~PreserveConfigured)
          /\ UNCHANGED <<_data, _element, childNodes, classList,
                         contentEditable, rafQueue, settings>>]_vars

ValidateWitness ==
    /\ lastOp = "validate"
    /\ _element # NULL
    /\ arg.text = <<" ", " ">>
    /\ ~PreserveConfigured
    /\ ~ret.ok

\* C8: the DIV is created once, by the first render(); every render()
\* returns it and posts exactly one hydrate callback; no step replaces it or
\* resets it to null.
RenderMemoized ==
    [][/\ _element # NULL => _element' = _element
       /\ drawn' <= 1
       /\ lastOp' # "render" => (drawn' = drawn /\ _element' = _element)
       /\ lastOp' = "render"
          => /\ _element' # NULL
             /\ ret'.element = _element'
             /\ (drawn' = drawn + 1) = (_element = NULL)
             /\ rafQueue' = rafQueue + 1]_vars

RenderWitness ==
    /\ lastOp = "render"
    /\ drawn = 1
    /\ rafQueue = 1
    /\ childNodes # <<>>
    /\ ret.element = _element

\* C9: for a rendered block with no user edit since its data was written,
\* once no hydrate callback is pending the DIV's content and the data getter
\* give the text that was written.
HydrationConverges ==
    (_element # NULL /\ rafQueue = 0 /\ written # Gone.text)
    => /\ childNodes = ParseHTML(TextOr(written))
       /\ Data.text = SerializeHTML(ParseHTML(TextOr(written)))

\* C10: a rendered block's DIV carries the alignment class of the current
\* data alignment and no other alignment class.
DisplayedAlignment ==
    (_element # NULL /\ _data.alignment \in ALIGNMENTS)
    => classList \cap AlignmentClasses = {CSSAlignment(_data.alignment)}
====
